---- MODULE Spec2Model ----
(***************************************************************************)
(* Model of main.py: ping_server, ping_all_servers and the __main__ block. *)
(* One process; pc is its position in the source.  The network (the reply  *)
(* to requests.get), the encoding of standard output and the user's Ctrl-C *)
(* are the environment.                                                    *)
(***************************************************************************)
EXTENDS Integers, Sequences, FiniteSets, TLC

VARIABLES
    stdout,            \* encoding of sys.stdout, fixed for the process
    pc,                \* position of the process in main.py
    idx,               \* number of servers the for loop has taken so far
    response,          \* ping_server: response (NoneVal until line 22 returns)
    response_info,     \* ping_server: response_info dict
    exc,               \* the exception last raised (NoneVal if none)
    result,            \* ping_all_servers: result of the last ping_server call
    results,           \* ping_all_servers: results list
    successful_pings,  \* ping_all_servers: local, line 124
    total_servers,     \* ping_all_servers: local, line 125
    exit_code,         \* __main__: exit_code, line 138
    status,            \* exit status of the process
    out,               \* lines written to standard output
    now,               \* number of datetime.datetime.now() calls so far
    wire               \* HTTP exchanges made by requests.get, in order

vars == <<stdout, pc, idx, response, response_info, exc, result, results,
          successful_pings, total_servers, exit_code, status, out, now, wire>>

-----------------------------------------------------------------------------
(* Bounds of the environment *)

MaxElapsed == 1
Elapsed == 1..MaxElapsed
StatusCodes == {200, 404}

-----------------------------------------------------------------------------
(* Values *)

NoneVal == [t |-> "None"]

servers == <<[name |-> "Node.js API Server",
              url  |-> "https://make-it-rag.onrender.com/ping"],
             [name |-> "Python AI Server",
              url  |-> "https://make-it-rag-1.onrender.com/ping"]>>

Encodings == {"utf8", "ascii"}

\* The characters of a printed line: "ascii", "unicode" (the emoji of the
\* status lines; not encodable in ascii) or "surrogate" (a lone surrogate, as
\* a JSON string "\ud800" decodes to; not encodable in any encoding).
CanEncode(enc, chars) ==
    \/ chars = "ascii"
    \/ enc = "utf8" /\ chars = "unicode"

\* JSON values the body can hold under the keys message and uptime.
MessageVals == {[t |-> "str", chars |-> "ascii"],
                [t |-> "str", chars |-> "surrogate"]}
UptimeVals  == {[t |-> "num"], [t |-> "str", chars |-> "ascii"], [t |-> "null"]}

Dicts ==
    UNION {{d \in [S -> MessageVals \cup UptimeVals] :
               /\ "message" \in S => d["message"] \in MessageVals
               /\ "uptime" \in S => d["uptime"] \in UptimeVals} :
           S \in SUBSET {"message", "uptime"}}

\* A response body: its raw text and, when the text is valid JSON, the value
\* response.json() returns.
Bodies ==
    {[text |-> "pong", json |-> NoneVal],
     [text |-> "[1]", json |-> [t |-> "list"]]}
    \cup {[text |-> "{...}", json |-> [t |-> "dict", d |-> d]] : d \in Dicts}

Responses ==
    [status_code : StatusCodes, elapsed : Elapsed, body : Bodies]

\* Python exception classes and their base classes.
Mro(cls) ==
    CASE cls = "ReadTimeout" ->
            {"ReadTimeout", "Timeout", "RequestException", "Exception", "BaseException"}
      [] cls = "ConnectTimeout" ->
            {"ConnectTimeout", "ConnectionError", "Timeout", "RequestException",
             "Exception", "BaseException"}
      [] cls = "ConnectionError" ->
            {"ConnectionError", "RequestException", "Exception", "BaseException"}
      [] cls = "TooManyRedirects" ->
            {"TooManyRedirects", "RequestException", "Exception", "BaseException"}
      [] cls = "JSONDecodeError" ->
            {"JSONDecodeError", "ValueError", "Exception", "BaseException"}
      [] cls = "UnicodeEncodeError" ->
            {"UnicodeEncodeError", "ValueError", "Exception", "BaseException"}
      [] cls = "ValueError" -> {"ValueError", "Exception", "BaseException"}
      [] cls = "TypeError" -> {"TypeError", "Exception", "BaseException"}
      [] cls = "KeyboardInterrupt" -> {"KeyboardInterrupt", "BaseException"}
      [] cls = "SystemExit" -> {"SystemExit", "BaseException"}

\* An exception raised at a source line; msg is str(e).
Raise(cls, line) ==
    [cls |-> cls, line |-> line,
     msg |-> CASE cls = "ReadTimeout" -> "Read timed out. (read timeout=30)"
               [] cls = "ConnectTimeout" -> "Connection timed out. (connect timeout=30)"
               [] cls = "ConnectionError" -> "Connection refused"
               [] cls = "TooManyRedirects" -> "Exceeded 30 redirects."
               [] cls = "JSONDecodeError" -> "Expecting value"
               [] cls = "UnicodeEncodeError" -> "codec can't encode character"
               [] cls = "ValueError" -> "Unknown format code 'f' for object of type 'str'"
               [] cls = "TypeError" -> "unsupported format string passed to NoneType.__format__"
               [] OTHER -> ""]

\* The exceptions requests.get raises instead of returning a response.
GetExceptions == {"ReadTimeout", "ConnectTimeout", "ConnectionError", "TooManyRedirects"}

-----------------------------------------------------------------------------
(* Printing *)

\* A print call at a source line: the kind of line and its characters.
Line(k, chars, ln) == [k |-> k, chars |-> chars, line |-> ln]

\* A print call whose f-string raises before anything is written.
FormatError(k, cls, ln) == [k |-> k, chars |-> "ascii", line |-> ln, raises |-> cls]

Fails(enc, item) == "raises" \in DOMAIN item \/ ~CanEncode(enc, item.chars)

RaisedBy(item) ==
    IF "raises" \in DOMAIN item THEN Raise(item.raises, item.line)
    ELSE Raise("UnicodeEncodeError", item.line)

\* Index of the first print call of items that raises, 0 if none does.
RECURSIVE FirstFail(_, _, _)
FirstFail(enc, items, i) ==
    IF i > Len(items) THEN 0
    ELSE IF Fails(enc, items[i]) THEN i
    ELSE FirstFail(enc, items, i + 1)

\* The lines written by a sequence of print calls that stops at the first
\* one that raises.
Written(enc, items) ==
    LET f == FirstFail(enc, items, 1)
    IN  IF f = 0 THEN items ELSE SubSeq(items, 1, f - 1)

-----------------------------------------------------------------------------
(* ping_server *)

server == servers[idx]

\* Handler without the except clause of line 69
Handler_NoConnectionClause(e) ==
    IF "Timeout" \in Mro(e.cls) THEN "h_timeout"
    ELSE IF "Exception" \in Mro(e.cls) THEN "h_other"
    ELSE "ps_unwind"

\* Handler with the except clauses of lines 58 and 69 in the other order
Handler_ConnectionFirst(e) ==
    IF "ConnectionError" \in Mro(e.cls) THEN "h_conn"
    ELSE IF "Timeout" \in Mro(e.cls) THEN "h_timeout"
    ELSE IF "Exception" \in Mro(e.cls) THEN "h_other"
    ELSE "ps_unwind"

\* The except clause of ping_server (lines 58, 69, 80) that takes an exception
\* raised in the try body; "ps_unwind" when none does.
Handler(e) ==
    IF "Timeout" \in Mro(e.cls) THEN "h_timeout"
    ELSE IF "ConnectionError" \in Mro(e.cls) THEN "h_conn"
    ELSE IF "Exception" \in Mro(e.cls) THEN "h_other"
    ELSE "ps_unwind"

\* Success taking every status below 500 for a success
Success_Below500(status_code) == status_code < 500

\* status_code == 200, line 31
Success(status_code) == status_code = 200

\* InnerCatches with an except clause for another class
InnerCatches_KeyError(e) == "KeyError" \in Mro(e.cls)

\* except json.JSONDecodeError, line 38: response.json() raises
\* json.JSONDecodeError, or a subclass of it, on a body that is not JSON
InnerCatches(e) == "JSONDecodeError" \in Mro(e.cls)

\* f"{data['uptime']:.1f}", line 52
UptimeLine(v) ==
    IF v.t = "num" THEN Line("uptime", "ascii", 52)
    ELSE IF v.t = "str" THEN FormatError("uptime", "ValueError", 52)
    ELSE FormatError("uptime", "TypeError", 52)

\* The print calls of lines 42-54, in order.
ReportLines(info) ==
    IF info.status_code = 200
    THEN <<Line("alive", "unicode", 43), Line("response_time", "ascii", 44)>>
         \o (IF "response_data" \in DOMAIN info /\ info.response_data.t = "dict"
             THEN LET data == info.response_data.d
                  IN  (IF "message" \in DOMAIN data
                       THEN <<Line("message", data["message"].chars, 50)>>
                       ELSE <<>>)
                      \o (IF "uptime" \in DOMAIN data
                          THEN <<UptimeLine(data["uptime"])>>
                          ELSE <<>>)
             ELSE <<>>)
    ELSE <<Line("unexpected_status", "unicode", 54)>>

\* The dict an except clause returns, lines 61-67, 72-78, 83-89.
Failure(error, ts) ==
    [server |-> server.name, url |-> server.url, error |-> error,
     timestamp |-> ts, success |-> FALSE]

\* line 19
PsStart ==
    /\ pc = "ps_start"
    /\ now' = now + 1
    /\ LET items == <<Line("pinging", "ascii", 19)>>
           f == FirstFail(stdout, items, 1)
       IN  /\ out' = out \o Written(stdout, items)
           /\ IF f = 0
              THEN pc' = "ps_get" /\ exc' = exc
              ELSE exc' = RaisedBy(items[f]) /\ pc' = Handler(exc')
    /\ UNCHANGED <<stdout, idx, response, response_info, result, results,
                   successful_pings, total_servers, exit_code, status, wire>>

\* line 22: requests.get returns a response or raises
PsGet ==
    /\ pc = "ps_get"
    /\ \/ \E r \in Responses :
            /\ response' = r
            /\ wire' = Append(wire, [url |-> server.url, got |-> "response",
                                     status_code |-> r.status_code])
            /\ pc' = "ps_info"
            /\ exc' = exc
       \/ \E cls \in GetExceptions :
            /\ exc' = Raise(cls, 22)
            /\ wire' = Append(wire, [url |-> server.url, got |-> cls])
            /\ pc' = Handler(exc')
            /\ response' = response
    /\ UNCHANGED <<stdout, idx, response_info, result, results, successful_pings,
                   total_servers, exit_code, status, out, now>>

\* lines 25-32
PsInfo ==
    /\ pc = "ps_info"
    /\ now' = now + 1
    /\ response_info' =
           [server |-> server.name, url |-> server.url,
            status_code |-> response.status_code,
            response_time |-> response.elapsed,
            timestamp |-> now',
            success |-> Success(response.status_code)]
    /\ pc' = "ps_json"
    /\ UNCHANGED <<stdout, idx, response, exc, result, results, successful_pings,
                   total_servers, exit_code, status, out, wire>>

\* lines 35-39
PsJson ==
    /\ pc = "ps_json"
    /\ IF response.body.json # NoneVal
       THEN /\ response_info' = response_info @@ [response_data |-> response.body.json]
            /\ pc' = "ps_print"
            /\ exc' = exc
       ELSE LET e == Raise("JSONDecodeError", 36)
            IN  IF InnerCatches(e)
                THEN /\ response_info' = response_info @@
                            [response_data |-> [t |-> "str", v |-> response.body.text]]
                     /\ pc' = "ps_print"
                     /\ exc' = exc
                ELSE /\ response_info' = response_info
                     /\ exc' = e
                     /\ pc' = Handler(e)
    /\ UNCHANGED <<stdout, idx, response, result, results, successful_pings,
                   total_servers, exit_code, status, out, now, wire>>

\* lines 42-54
PsPrint ==
    /\ pc = "ps_print"
    /\ LET items == ReportLines(response_info)
           f == FirstFail(stdout, items, 1)
       IN  /\ out' = out \o Written(stdout, items)
           /\ IF f = 0
              THEN pc' = "ps_return" /\ exc' = exc
              ELSE exc' = RaisedBy(items[f]) /\ pc' = Handler(exc')
    /\ UNCHANGED <<stdout, idx, response, response_info, result, results,
                   successful_pings, total_servers, exit_code, status, now, wire>>

\* line 56
PsReturn ==
    /\ pc = "ps_return"
    /\ result' = response_info
    /\ pc' = "append"
    /\ UNCHANGED <<stdout, idx, response, response_info, exc, results,
                   successful_pings, total_servers, exit_code, status, out, now, wire>>

\* The three except clauses print their line, then build and return the dict.
\* An exception raised by the print of an except clause leaves ping_server.

\* lines 58-67
HTimeout ==
    /\ pc = "h_timeout"
    /\ LET item == Line("timed_out", "unicode", 60)
       IN  IF Fails(stdout, item)
           THEN /\ exc' = RaisedBy(item)
                /\ pc' = "ps_unwind"
                /\ UNCHANGED <<out, now, result>>
           ELSE /\ out' = Append(out, item)
                /\ now' = now + 1
                /\ result' = Failure("timeout", now')
                /\ pc' = "append"
                /\ exc' = exc
    /\ UNCHANGED <<stdout, idx, response, response_info, results, successful_pings,
                   total_servers, exit_code, status, wire>>

\* lines 69-78
HConn ==
    /\ pc = "h_conn"
    /\ LET item == Line("connection_failed", "unicode", 71)
       IN  IF Fails(stdout, item)
           THEN /\ exc' = RaisedBy(item)
                /\ pc' = "ps_unwind"
                /\ UNCHANGED <<out, now, result>>
           ELSE /\ out' = Append(out, item)
                /\ now' = now + 1
                /\ result' = Failure("connection_error", now')
                /\ pc' = "append"
                /\ exc' = exc
    /\ UNCHANGED <<stdout, idx, response, response_info, results, successful_pings,
                   total_servers, exit_code, status, wire>>

\* lines 80-89
HOther ==
    /\ pc = "h_other"
    /\ LET item == Line("error", "unicode", 82)
       IN  IF Fails(stdout, item)
           THEN /\ exc' = RaisedBy(item)
                /\ pc' = "ps_unwind"
                /\ UNCHANGED <<out, now, result>>
           ELSE /\ out' = Append(out, item)
                /\ now' = now + 1
                /\ result' = Failure(exc.msg, now')
                /\ pc' = "append"
                /\ exc' = exc
    /\ UNCHANGED <<stdout, idx, response, response_info, results, successful_pings,
                   total_servers, exit_code, status, wire>>

-----------------------------------------------------------------------------
(* __main__ *)

\* TopHandler with a second clause that takes every exception, SystemExit too
TopHandler_CatchAll(e) ==
    IF "KeyboardInterrupt" \in Mro(e.cls) THEN "top_kbd"
    ELSE "top_exc"

\* The except clause of __main__ (lines 140, 143) that takes an exception
\* raised in its try body; "uncaught" when none does.
TopHandler(e) ==
    IF "KeyboardInterrupt" \in Mro(e.cls) THEN "top_kbd"
    ELSE IF "Exception" \in Mro(e.cls) THEN "top_exc"
    ELSE "uncaught"

\* An exception leaves ping_server and ping_all_servers, which has no try.
PsUnwind ==
    /\ pc = "ps_unwind"
    /\ pc' = TopHandler(exc)
    /\ UNCHANGED <<stdout, idx, response, response_info, exc, result, results,
                   successful_pings, total_servers, exit_code, status, out, now, wire>>

-----------------------------------------------------------------------------
(* ping_all_servers *)

\* A sequence of print calls of ping_all_servers: on an exception the
\* function is left for the handlers of __main__.
PaPrint(items, next) ==
    LET f == FirstFail(stdout, items, 1)
    IN  /\ out' = out \o Written(stdout, items)
        /\ IF f = 0
           THEN pc' = next /\ exc' = exc
           ELSE exc' = RaisedBy(items[f]) /\ pc' = TopHandler(exc')

\* lines 107-111
Banner ==
    /\ pc = "main"
    /\ PaPrint(<<Line("rule", "ascii", 107), Line("title", "ascii", 108),
                 Line("rule", "ascii", 109)>>, "loop")
    /\ (pc' = "loop" => results' = <<>>)
    /\ (pc' # "loop" => results' = results)
    /\ UNCHANGED <<stdout, idx, response, response_info, result, successful_pings,
                   total_servers, exit_code, status, now, wire>>

\* LoopNext leaving the loop after a result that is not a success
LoopNext_StopAtFailure ==
    /\ pc = "loop"
    /\ IF idx < Len(servers) /\ (idx = 0 \/ results[idx].success)
       THEN /\ idx' = idx + 1
            /\ pc' = "ps_start"
            /\ response' = NoneVal
            /\ response_info' = NoneVal
            /\ exc' = NoneVal
       ELSE /\ pc' = "summary"
            /\ UNCHANGED <<idx, response, response_info, exc>>
    /\ UNCHANGED <<stdout, result, results, successful_pings, total_servers,
                   exit_code, status, out, now, wire>>

\* lines 114-115: the next server, and the call of ping_server
LoopNext ==
    /\ pc = "loop"
    /\ IF idx < Len(servers)
       THEN /\ idx' = idx + 1
            /\ pc' = "ps_start"
            /\ response' = NoneVal
            /\ response_info' = NoneVal
            /\ exc' = NoneVal
       ELSE /\ pc' = "summary"
            /\ UNCHANGED <<idx, response, response_info, exc>>
    /\ UNCHANGED <<stdout, result, results, successful_pings, total_servers,
                   exit_code, status, out, now, wire>>

\* line 116
AppendResult ==
    /\ pc = "append"
    /\ results' = Append(results, result)
    /\ pc' = "sep"
    /\ UNCHANGED <<stdout, idx, response, response_info, exc, result,
                   successful_pings, total_servers, exit_code, status, out, now, wire>>

\* line 117
Separator ==
    /\ pc = "sep"
    /\ PaPrint(<<Line("blank", "ascii", 117)>>, "loop")
    /\ UNCHANGED <<stdout, idx, response, response_info, result, results,
                   successful_pings, total_servers, exit_code, status, now, wire>>

\* CountSuccess counting the results without an error field
CountSuccess_NoError(rs) == Cardinality({i \in 1..Len(rs) : "error" \notin DOMAIN rs[i]})

\* sum(1 for r in results if r["success"]), line 124
CountSuccess(rs) == Cardinality({i \in 1..Len(rs) : rs[i].success})

\* lines 120-127
Summary ==
    /\ pc = "summary"
    /\ successful_pings' = CountSuccess(results)
    /\ total_servers' = Len(results)
    /\ PaPrint(<<Line("rule", "ascii", 120), Line("summary_title", "ascii", 121),
                 Line("rule", "ascii", 122),
                 [k |-> "responding", chars |-> "ascii", line |-> 127,
                  n |-> successful_pings', t |-> total_servers']>>, "verdict")
    /\ UNCHANGED <<stdout, idx, response, response_info, result, results,
                   exit_code, status, now, wire>>

\* lines 129-134, and the assignment of line 138
Verdict ==
    /\ pc = "verdict"
    /\ IF successful_pings = total_servers
       THEN /\ PaPrint(<<Line("all_healthy", "unicode", 130)>>, "exit")
            /\ exit_code' = IF pc' = "exit" THEN 0 ELSE exit_code
       ELSE /\ PaPrint(<<Line("not_responding", "unicode", 133)>>, "exit")
            /\ exit_code' = IF pc' = "exit" THEN 1 ELSE exit_code
    /\ UNCHANGED <<stdout, idx, response, response_info, result, results,
                   successful_pings, total_servers, status, now, wire>>

-----------------------------------------------------------------------------
(* __main__, continued *)

\* line 139: sys.exit raises SystemExit inside the try
SysExit ==
    /\ pc = "exit"
    /\ exc' = [cls |-> "SystemExit", line |-> 139, msg |-> "", code |-> exit_code]
    /\ pc' = TopHandler(exc')
    /\ UNCHANGED <<stdout, idx, response, response_info, result, results,
                   successful_pings, total_servers, exit_code, status, out, now, wire>>

\* SystemExit reaches the interpreter: the process exits with its code
Uncaught ==
    /\ pc = "uncaught"
    /\ status' = exc.code
    /\ pc' = "done"
    /\ UNCHANGED <<stdout, idx, response, response_info, exc, result, results,
                   successful_pings, total_servers, exit_code, out, now, wire>>

\* The except clauses of __main__ print, then sys.exit(1).  An exception of
\* the print is uncaught and the interpreter exits with status 1 as well.

\* lines 140-142
TopKbd ==
    /\ pc = "top_kbd"
    /\ out' = out \o Written(stdout, <<Line("interrupted", "ascii", 141)>>)
    /\ status' = 1
    /\ pc' = "done"
    /\ UNCHANGED <<stdout, idx, response, response_info, exc, result, results,
                   successful_pings, total_servers, exit_code, now, wire>>

\* lines 143-145
TopExc ==
    /\ pc = "top_exc"
    /\ out' = out \o Written(stdout, <<Line("unexpected_error", "ascii", 144)>>)
    /\ status' = 1
    /\ pc' = "done"
    /\ UNCHANGED <<stdout, idx, response, response_info, exc, result, results,
                   successful_pings, total_servers, exit_code, now, wire>>

\* Positions inside ping_server, and inside the try of __main__ outside it
PsPcs == {"ps_start", "ps_get", "ps_info", "ps_json", "ps_print", "ps_return",
          "h_timeout", "h_conn", "h_other"}
PaPcs == {"main", "loop", "append", "sep", "summary", "verdict", "exit"}

\* Ctrl-C while the try of __main__ runs: KeyboardInterrupt is raised at the
\* current position.
Interrupt ==
    /\ pc \in PsPcs \cup PaPcs
    /\ exc' = Raise("KeyboardInterrupt", 138)
    /\ pc' = IF pc \in PsPcs /\ pc \notin {"h_timeout", "h_conn", "h_other"}
             THEN Handler(exc')
             ELSE IF pc \in PsPcs THEN "ps_unwind" ELSE TopHandler(exc')
    /\ UNCHANGED <<stdout, idx, response, response_info, result, results,
                   successful_pings, total_servers, exit_code, status, out, now, wire>>

-----------------------------------------------------------------------------

Init ==
    /\ stdout \in Encodings
    /\ pc = "main"
    /\ idx = 0
    /\ response = NoneVal
    /\ response_info = NoneVal
    /\ exc = NoneVal
    /\ result = NoneVal
    /\ results = <<>>
    /\ successful_pings = 0
    /\ total_servers = 0
    /\ exit_code = NoneVal
    /\ status = NoneVal
    /\ out = <<>>
    /\ now = 0
    /\ wire = <<>>

Next ==
    \/ Banner \/ LoopNext \/ PsStart \/ PsGet \/ PsInfo \/ PsJson \/ PsPrint
    \/ PsReturn \/ HTimeout \/ HConn \/ HOther \/ PsUnwind \/ AppendResult
    \/ Separator \/ Summary \/ Verdict \/ SysExit \/ Uncaught \/ TopKbd
    \/ TopExc \/ Interrupt

Spec == Init /\ [][Next]_vars

-----------------------------------------------------------------------------
(* Properties *)

\* ping_server has just returned: result holds the value it returned, and
\* response and exc still hold what happened during the call.
Returned == pc = "append"

\* requests.get returned a response in the call that has just returned
GotResponse == response # NoneVal

\* requests.get raised in the call that has just returned
GetRaised == response = NoneVal /\ exc # NoneVal /\ exc.line = 22

Printed(k) == {i \in 1..Len(out) : out[i].k = k}

SuccessShape == {"server", "url", "status_code", "response_time", "timestamp",
                 "success", "response_data"}
FailureShape == {"server", "url", "error", "timestamp", "success"}

\* C1: a run of ping_all_servers that completes returns 0 if and only if
\* every target's probe received an HTTP 200 response, and 1 otherwise.
C1_ReturnsZeroIffAll200 ==
    pc = "exit" =>
        /\ exit_code \in {0, 1}
        /\ exit_code = 0 <=>
               \A i \in 1..Len(wire) :
                   wire[i].got = "response" /\ wire[i].status_code = 200

\* C2: the result ping_server returns has success true if and only if the
\* GET returned status 200, whatever the body of the response.
C2_SuccessIff200 ==
    Returned => (result.success <=> (GotResponse /\ response.status_code = 200))

\* C3: no exception raised inside the probe (KeyboardInterrupt, which is
\* the user's, aside) leaves ping_server.
C3_NeverPropagates ==
    pc = "ps_unwind" => exc.cls = "KeyboardInterrupt"

C5_TopLevelExit ==
    pc = "done" =>
        /\ status \in {0, 1}
        /\ exc.cls = "KeyboardInterrupt" =>
               /\ status = 1
               /\ Cardinality(Printed("interrupted")) = 1
               /\ Printed("unexpected_error") = {}
        /\ exc.cls \notin {"KeyboardInterrupt", "SystemExit"} =>
               /\ status = 1
               /\ Cardinality(Printed("unexpected_error")) = 1
               /\ Printed("interrupted") = {}
        /\ exc.cls = "SystemExit" =>
               /\ status = exit_code
               /\ Printed("interrupted") = {}
               /\ Printed("unexpected_error") = {}

C5_Witness ==
    /\ pc = "done"
    /\ exc.cls = "KeyboardInterrupt"
    /\ Len(results) = 1
    /\ status = 1
    /\ out[Len(out)].k = "interrupted"

C8_Summary ==
    LET N == Cardinality({i \in 1..Len(results) : results[i].success})
        T == Len(servers)
    IN  /\ pc \in {"verdict", "exit"} =>
               /\ Cardinality(Printed("responding")) = 1
               /\ \A i \in Printed("responding") : out[i].n = N /\ out[i].t = T
               /\ 0 <= N /\ N <= T
        /\ pc = "exit" =>
               /\ Printed("all_healthy") # {} <=> N = T
               /\ Printed("not_responding") # {} <=> N < T
               /\ Cardinality(Printed("all_healthy") \cup Printed("not_responding")) = 1
               /\ exit_code = IF N = T THEN 0 ELSE 1
        /\ pc \notin {"verdict", "exit", "uncaught", "done", "top_kbd", "top_exc"} =>
               Printed("all_healthy") \cup Printed("not_responding") = {}

C8_Witness ==
    /\ pc = "exit"
    /\ results[1].success
    /\ "error" \in DOMAIN results[2]
    /\ results[2].error = "timeout"
    /\ \E i \in Printed("responding") : out[i].n = 1 /\ out[i].t = 2
    /\ exit_code = 1

====
